---- MODULE Spec2Model ----
(***************************************************************************)
(* CDC-ACM virtual serial port of afrowii (STM32 USB full-speed device):   *)
(* the endpoint register write protocol (usb_reg_map.h) and the serial     *)
(* flow controller and line state monitor (usb_cdcacm.c).                  *)
(*                                                                         *)
(* One hardware thread with interrupt preemption: the application context  *)
(* runs usb_cdcacm_rx / usb_cdcacm_tx one memory access at a time (pc),    *)
(* the USB interrupt (RX complete, TX complete, bus reset, class requests) *)
(* runs to completion and may fire between any two application steps.      *)
(***************************************************************************)
EXTENDS Integers, Sequences, FiniteSets, TLC

(* ------------------------------------------------------------------ *)
(* Bounds of the model                                                 *)
(* ------------------------------------------------------------------ *)
MaxLen == 2
MaxPkt == 2
MaxResets == 2
MaxDtrHist == 4
MaxRegCalls == 1
MaxBdtCalls == 2
MaxPutcCalls == 2

(* ------------------------------------------------------------------ *)
(* Program constants                                                   *)
(* ------------------------------------------------------------------ *)
USB_NR_EP_REGS == 8
USB_EP_CTR_RX == 32768
USB_EP_DTOG_RX == 16384
USB_EP_STAT_RX == 12288
USB_EP_STAT_RX_DISABLED == 0
USB_EP_STAT_RX_STALL == 4096
USB_EP_STAT_RX_NAK == 8192
USB_EP_STAT_RX_VALID == 12288
USB_EP_SETUP == 2048
USB_EP_EP_TYPE == 1536
USB_EP_EP_TYPE_BULK == 0
USB_EP_EP_TYPE_CONTROL == 512
USB_EP_EP_TYPE_ISO == 1024
USB_EP_EP_TYPE_INTERRUPT == 1536
USB_EP_EP_KIND == 256
USB_EP_CTR_TX == 128
USB_EP_DTOG_TX == 64
USB_EP_STAT_TX == 48
USB_EP_STAT_TX_DISABLED == 0
USB_EP_STAT_TX_STALL == 16
USB_EP_STAT_TX_NAK == 32
USB_EP_STAT_TX_VALID == 48
USB_EP_EA == 15

USB_EP0 == 0
VCOM_CTRL_RX_ADDR == 64
VCOM_CTRL_TX_ADDR == 128
VCOM_TX_ENDP == 1
VCOM_TX_ADDR == 192
VCOM_TX_EPSIZE == 64
VCOM_NOTIFICATION_ENDP == 2
VCOM_NOTIFICATION_ADDR == 256
VCOM_RX_ENDP == 3
VCOM_RX_ADDR == 272
VCOM_RX_EPSIZE == 64
VCOM_RX_BUFLEN == VCOM_RX_EPSIZE * 3
MAX_PACKET_SIZE == 64
BTABLE_ADDRESS == 0

SET_LINE_CODING == 32
GET_LINE_CODING == 33
SET_COMM_FEATURE == 2
SET_CONTROL_LINE_STATE == 34
CONTROL_LINE_DTR == 1
CONTROL_LINE_RTS == 2
CLASS_REQUEST == 32
INTERFACE_RECIPIENT == 1

(* RESET_STATE *)
DTR_UNSET == "DTR_UNSET"
DTR_HIGH == "DTR_HIGH"
DTR_NEGEDGE == "DTR_NEGEDGE"
DTR_LOW == "DTR_LOW"
RESET_STATE == {DTR_UNSET, DTR_HIGH, DTR_NEGEDGE, DTR_LOW}

(* RESULT *)
USB_SUCCESS == "USB_SUCCESS"
USB_UNSUPPORT == "USB_UNSUPPORT"

(* USBLIB->state *)
USB_UNCONNECTED == "USB_UNCONNECTED"
USB_ATTACHED == "USB_ATTACHED"

(* ------------------------------------------------------------------ *)
(* Bit operations on the 16 implemented bits of a register             *)
(* ------------------------------------------------------------------ *)
(* each operand is bound to its value once, x to a and y to b, and the *)
(* result is assembled bit by bit                                      *)
And1(x, y) == x * y
Or1(x, y) == x + y - x * y
Xor1(x, y) == (x + y) % 2

BitAnd(a, b) ==
    CHOOSE r \in {
      1 * And1((x \div 1) % 2, (y \div 1) % 2)
    + 2 * And1((x \div 2) % 2, (y \div 2) % 2)
    + 4 * And1((x \div 4) % 2, (y \div 4) % 2)
    + 8 * And1((x \div 8) % 2, (y \div 8) % 2)
    + 16 * And1((x \div 16) % 2, (y \div 16) % 2)
    + 32 * And1((x \div 32) % 2, (y \div 32) % 2)
    + 64 * And1((x \div 64) % 2, (y \div 64) % 2)
    + 128 * And1((x \div 128) % 2, (y \div 128) % 2)
    + 256 * And1((x \div 256) % 2, (y \div 256) % 2)
    + 512 * And1((x \div 512) % 2, (y \div 512) % 2)
    + 1024 * And1((x \div 1024) % 2, (y \div 1024) % 2)
    + 2048 * And1((x \div 2048) % 2, (y \div 2048) % 2)
    + 4096 * And1((x \div 4096) % 2, (y \div 4096) % 2)
    + 8192 * And1((x \div 8192) % 2, (y \div 8192) % 2)
    + 16384 * And1((x \div 16384) % 2, (y \div 16384) % 2)
    + 32768 * And1((x \div 32768) % 2, (y \div 32768) % 2)
        : x \in {a}, y \in {b}} : TRUE

BitOr(a, b) ==
    CHOOSE r \in {
      1 * Or1((x \div 1) % 2, (y \div 1) % 2)
    + 2 * Or1((x \div 2) % 2, (y \div 2) % 2)
    + 4 * Or1((x \div 4) % 2, (y \div 4) % 2)
    + 8 * Or1((x \div 8) % 2, (y \div 8) % 2)
    + 16 * Or1((x \div 16) % 2, (y \div 16) % 2)
    + 32 * Or1((x \div 32) % 2, (y \div 32) % 2)
    + 64 * Or1((x \div 64) % 2, (y \div 64) % 2)
    + 128 * Or1((x \div 128) % 2, (y \div 128) % 2)
    + 256 * Or1((x \div 256) % 2, (y \div 256) % 2)
    + 512 * Or1((x \div 512) % 2, (y \div 512) % 2)
    + 1024 * Or1((x \div 1024) % 2, (y \div 1024) % 2)
    + 2048 * Or1((x \div 2048) % 2, (y \div 2048) % 2)
    + 4096 * Or1((x \div 4096) % 2, (y \div 4096) % 2)
    + 8192 * Or1((x \div 8192) % 2, (y \div 8192) % 2)
    + 16384 * Or1((x \div 16384) % 2, (y \div 16384) % 2)
    + 32768 * Or1((x \div 32768) % 2, (y \div 32768) % 2)
        : x \in {a}, y \in {b}} : TRUE

BitXor(a, b) ==
    CHOOSE r \in {
      1 * Xor1((x \div 1) % 2, (y \div 1) % 2)
    + 2 * Xor1((x \div 2) % 2, (y \div 2) % 2)
    + 4 * Xor1((x \div 4) % 2, (y \div 4) % 2)
    + 8 * Xor1((x \div 8) % 2, (y \div 8) % 2)
    + 16 * Xor1((x \div 16) % 2, (y \div 16) % 2)
    + 32 * Xor1((x \div 32) % 2, (y \div 32) % 2)
    + 64 * Xor1((x \div 64) % 2, (y \div 64) % 2)
    + 128 * Xor1((x \div 128) % 2, (y \div 128) % 2)
    + 256 * Xor1((x \div 256) % 2, (y \div 256) % 2)
    + 512 * Xor1((x \div 512) % 2, (y \div 512) % 2)
    + 1024 * Xor1((x \div 1024) % 2, (y \div 1024) % 2)
    + 2048 * Xor1((x \div 2048) % 2, (y \div 2048) % 2)
    + 4096 * Xor1((x \div 4096) % 2, (y \div 4096) % 2)
    + 8192 * Xor1((x \div 8192) % 2, (y \div 8192) % 2)
    + 16384 * Xor1((x \div 16384) % 2, (y \div 16384) % 2)
    + 32768 * Xor1((x \div 32768) % 2, (y \div 32768) % 2)
        : x \in {a}, y \in {b}} : TRUE

(* ~x on the low halfword; EP registers and PMA words implement 16 bits *)
BitNot(a) == 65535 - a

Min(a, b) == IF a < b THEN a ELSE b

(* ------------------------------------------------------------------ *)
(* Endpoint register: hardware write semantics and field readers       *)
(* ------------------------------------------------------------------ *)
EpToggleBits == USB_EP_DTOG_RX + USB_EP_STAT_RX + USB_EP_DTOG_TX + USB_EP_STAT_TX
EpClearBits == USB_EP_CTR_RX + USB_EP_CTR_TX
EpPlainBits == USB_EP_EP_TYPE + USB_EP_EP_KIND + USB_EP_EA

(* The register after the CPU writes w to a register holding old:       *)
(* DTOG and STAT bits toggle where a 1 is written, CTR bits are cleared *)
(* by writing 0 and kept by writing 1, SETUP is read-only, the rest is  *)
(* stored as written.                                                   *)
HwEpWrite(old, w) ==
      BitXor(BitAnd(old, EpToggleBits), BitAnd(w, EpToggleBits))
    + BitAnd(BitAnd(old, EpClearBits), w)
    + BitAnd(old, USB_EP_SETUP)
    + BitAnd(w, EpPlainBits)

StatRx(r) == BitAnd(r, USB_EP_STAT_RX)
StatTx(r) == BitAnd(r, USB_EP_STAT_TX)
DtogRx(r) == BitAnd(r, USB_EP_DTOG_RX)
DtogTx(r) == BitAnd(r, USB_EP_DTOG_TX)
CtrRx(r) == BitAnd(r, USB_EP_CTR_RX)
CtrTx(r) == BitAnd(r, USB_EP_CTR_TX)
EpType(r) == BitAnd(r, USB_EP_EP_TYPE)
EpKind(r) == BitAnd(r, USB_EP_EP_KIND)
EpSetup(r) == BitAnd(r, USB_EP_SETUP)
EpAddr(r) == BitAnd(r, USB_EP_EA)

RxStatuses == {USB_EP_STAT_RX_DISABLED, USB_EP_STAT_RX_STALL,
               USB_EP_STAT_RX_NAK, USB_EP_STAT_RX_VALID}
TxStatuses == {USB_EP_STAT_TX_DISABLED, USB_EP_STAT_TX_STALL,
               USB_EP_STAT_TX_NAK, USB_EP_STAT_TX_VALID}
EpTypes == {USB_EP_EP_TYPE_BULK, USB_EP_EP_TYPE_CONTROL,
            USB_EP_EP_TYPE_ISO, USB_EP_EP_TYPE_INTERRUPT}

(* ------------------------------------------------------------------ *)
(* Register convenience routines: the value each routine writes, from  *)
(* the value epr it read                                               *)
(* ------------------------------------------------------------------ *)
EP_CTR_NOP == BitOr(USB_EP_CTR_RX, USB_EP_CTR_TX)
EP_NONTOGGLE ==
    BitOr(BitOr(BitOr(USB_EP_CTR_RX, USB_EP_SETUP),
                BitOr(USB_EP_EP_TYPE, USB_EP_EP_KIND)),
          BitOr(USB_EP_CTR_TX, USB_EP_EA))

usb_clear_ctr_rx(epr) ==
    BitAnd(BitAnd(epr, BitNot(USB_EP_CTR_RX)), EP_NONTOGGLE)

usb_clear_ctr_tx(epr) ==
    BitAnd(BitAnd(epr, BitNot(USB_EP_CTR_TX)), EP_NONTOGGLE)

(* a faulty variant: the other direction's status and the data toggles *)
(* are not masked out of the value written                             *)
usb_set_ep_rx_stat_unmasked(epr, status) ==
    BitXor(BitOr(epr, EP_CTR_NOP), status)

usb_set_ep_rx_stat(epr, status) ==
    LET e1 == BitAnd(epr, BitNot(BitOr(USB_EP_STAT_TX,
                                       BitOr(USB_EP_DTOG_RX, USB_EP_DTOG_TX))))
        e2 == BitOr(e1, EP_CTR_NOP)
    IN  BitXor(e2, status)

(* a faulty variant: the CTR bits are written as they were read *)
usb_set_ep_tx_stat_ctr_as_read(epr, status) ==
    BitXor(BitAnd(epr, BitNot(BitOr(USB_EP_STAT_RX,
                                    BitOr(USB_EP_DTOG_RX, USB_EP_DTOG_TX)))),
           status)

(* a faulty variant: the status is stored as if the field were plain   *)
(* read/write, not toggled into place                                  *)
usb_set_ep_tx_stat_stored(epr, status) ==
    BitOr(BitOr(BitAnd(epr, EP_NONTOGGLE), EP_CTR_NOP), status)

usb_set_ep_tx_stat(epr, status) ==
    LET e1 == BitAnd(epr, BitNot(BitOr(USB_EP_STAT_RX,
                                       BitOr(USB_EP_DTOG_RX, USB_EP_DTOG_TX))))
        e2 == BitOr(e1, EP_CTR_NOP)
    IN  BitXor(e2, status)

(* a faulty variant: the toggle bits are written as they were read *)
usb_set_ep_type_unmasked(epr, type) ==
    BitOr(BitAnd(epr, BitNot(USB_EP_EP_TYPE)), type)

usb_set_ep_type(epr, type) ==
    BitOr(BitAnd(BitAnd(epr, BitNot(USB_EP_EP_TYPE)), EP_NONTOGGLE), type)

usb_set_ep_kind(epr, kind) ==
    BitOr(BitAnd(BitAnd(epr, BitNot(USB_EP_EP_KIND)), EP_NONTOGGLE), kind)

usb_clear_status_out(epr) == usb_set_ep_kind(epr, 0)

(* ------------------------------------------------------------------ *)
(* State                                                               *)
(* ------------------------------------------------------------------ *)
VARIABLES
    EP,             \* USB_BASE->EP[0..7], the implemented low halfword
    pma,            \* packet memory area, one entry per 16-bit word
    vcomBufferRx,   \* uint8_t vcomBufferRx[VCOM_RX_BUFLEN]
    countTx,        \* bytes in flight
    recvBufIn, recvBufOut, maxNewBytes,
    newBytes,       \* bytes available
    rx_offset,      \* static read cursor of usb_cdcacm_rx
    reset_state, line_dtr_rts, last_request,
    CopyData,       \* pInformation->Ctrl_Info.CopyData
    usbState,       \* USBLIB->state
    pc,             \* position of the application context
    len, i, tmp, epr,   \* locals of the running call
    buf,            \* bytes the running usb_cdcacm_rx has copied out
    src,            \* bytes handed to the running usb_cdcacm_tx
    op,             \* history: the operation that completed last
    pre,            \* history: shared state when that operation started
    pkt,            \* history: last packet delivered by vcomDataRxCb
    got,            \* history: bytes copied out since that packet
    lostBytes,      \* history: a packet was overwritten before it was read out
    clobbered,      \* history: newBytes -= len overwrote the handler's count
    txPending,      \* history: a packet was accepted, vcomDataTxCb not yet run
    inFlight,       \* history: ... and usbReset not yet run either
    nRegCalls,      \* history: register routines called on their own so far
    putc,           \* the running usb_cdcacm_putc: its argument and its loop
    nResets,        \* history: bus resets so far
    dtrBits         \* history: DTR bits delivered so far

hwVars == <<EP, pma>>
rxVars == <<vcomBufferRx, newBytes, rx_offset>>
fifoVars == <<recvBufIn, recvBufOut, maxNewBytes>>
devVars == <<usbState>>
lineVars == <<reset_state, line_dtr_rts, last_request, CopyData>>
txHist == <<txPending, inFlight>>
localVars == <<len, i, tmp, epr, buf, src>>
rxHist == <<pkt, got, lostBytes, clobbered>>
vars == <<EP, pma, vcomBufferRx, countTx, recvBufIn, recvBufOut, maxNewBytes,
          newBytes, rx_offset, reset_state, line_dtr_rts, last_request, CopyData, usbState,
          pc, len, i, tmp, epr, buf, src,
          op, pre, pkt, got, lostBytes, clobbered, txPending, inFlight, nRegCalls,
          putc, nResets, dtrBits>>

Endpoints == 0 .. (USB_NR_EP_REGS - 1)
PmaWords == 0 .. ((VCOM_RX_ADDR + VCOM_RX_EPSIZE) \div 2 - 1)

(* ------------------------------------------------------------------ *)
(* Buffer descriptor table                                             *)
(* ------------------------------------------------------------------ *)
(* usb_pma_ptr: PMA offset -> index of the 16-bit word it addresses *)
usb_pma_ptr(offset) == offset \div 2

usb_btable_ptr(offset) == usb_pma_ptr(BTABLE_ADDRESS + offset)

usb_ep_tx_addr_ptr(ep) == usb_btable_ptr(ep * 8)
usb_ep_rx_addr_ptr(ep) == usb_btable_ptr(ep * 8 + 4)

(* a faulty variant: the fields are taken to follow each other without *)
(* regard to their width                                               *)
usb_ep_tx_count_ptr_packed(ep) == usb_btable_ptr(ep * 8 + 1)

usb_ep_tx_count_ptr(ep) == usb_btable_ptr(ep * 8 + 2)
usb_ep_rx_count_ptr(ep) == usb_btable_ptr(ep * 8 + 6)

usb_get_ep_tx_addr(m, ep) == m[usb_ep_tx_addr_ptr(ep)]

(* a faulty variant: the address is stored as given *)
usb_set_ep_tx_addr_unaligned(m, ep, addr) ==
    [m EXCEPT ![usb_ep_tx_addr_ptr(ep)] = addr]

usb_set_ep_tx_addr(m, ep, addr) ==
    [m EXCEPT ![usb_ep_tx_addr_ptr(ep)] = BitAnd(addr, BitNot(1))]

usb_get_ep_rx_addr(m, ep) == m[usb_ep_rx_addr_ptr(ep)]
usb_set_ep_rx_addr(m, ep, addr) ==
    [m EXCEPT ![usb_ep_rx_addr_ptr(ep)] = BitAnd(addr, BitNot(1))]

usb_get_ep_tx_count(m, ep) == m[usb_ep_tx_count_ptr(ep)]
usb_set_ep_tx_count(m, ep, count) ==
    [m EXCEPT ![usb_ep_tx_count_ptr(ep)] = count % 65536]

usb_get_ep_rx_count(m, ep) == BitAnd(m[usb_ep_rx_count_ptr(ep)], 1023)

(* usb_set_ep_rx_count is declared in usb_reg_map.h and defined outside  *)
(* src/: the count word keeps the received length in its low 10 bits    *)
(* (read by usb_get_ep_rx_count) and the size of the packet the         *)
(* endpoint may receive in the bits above (BL_SIZE, NUM_BLOCK).         *)
usb_set_ep_rx_count(m, ep, count) ==
    LET nb32 == (count \div 32) - (IF count % 32 = 0 THEN 1 ELSE 0)
        nb2 == (count \div 2) + (count % 2)
    IN  [m EXCEPT ![usb_ep_rx_count_ptr(ep)] =
            IF count > 62 THEN 32768 + nb32 * 1024 ELSE nb2 * 1024]

(* size of the packet the endpoint may receive, from its count word *)
RxAllocated(w) ==
    LET nb == (w \div 1024) % 32
    IN  IF w >= 32768 THEN 32 * (nb + 1) ELSE 2 * nb

(* ------------------------------------------------------------------ *)
(* PMA copies (declared in usb_reg_map.h, defined outside src/): bytes *)
(* are packed two to a 16-bit word, low byte first; an odd length      *)
(* leaves the high byte of the last word alone.                        *)
(* ------------------------------------------------------------------ *)
usb_copy_to_pma(m, b, n, pma_offset) ==
    LET base == usb_pma_ptr(pma_offset)
    IN  [x \in DOMAIN m |->
            IF x >= base /\ 2 * (x - base) < n
            THEN LET j == 2 * (x - base)
                 IN  b[j + 1] + 256 * (IF j + 1 < n THEN b[j + 2] ELSE m[x] \div 256)
            ELSE m[x]]

PmaByte(m, pma_offset, j) ==
    LET w == m[usb_pma_ptr(pma_offset) + j \div 2]
    IN  IF j % 2 = 0 THEN w % 256 ELSE w \div 256

usb_copy_from_pma(dst, m, n, pma_offset) ==
    [x \in DOMAIN dst |-> IF x < n THEN PmaByte(m, pma_offset, x) ELSE dst[x]]

(* ------------------------------------------------------------------ *)
(* uint32_t counters are kept as two's-complement integers: a negative *)
(* value v stands for v + 2^32.  Unsigned comparison:                  *)
(* ------------------------------------------------------------------ *)
UGt(a, b) ==
    IF (a < 0) = (b < 0) THEN a > b ELSE a < 0

(* ------------------------------------------------------------------ *)
(* Inputs                                                              *)
(* ------------------------------------------------------------------ *)
(* payloads: packets of different lengths, and the two payloads of one *)
(* length, differ at every byte position                               *)
Bytes(seed, n) == [j \in 1 .. n |-> (seed * 101 + n * 16 + j) % 256]
RxPayloads == {0}
TxPayloads == {0, 1}
RxLens == (0 .. MaxLen) \cup {VCOM_RX_EPSIZE + 1}
TxLens == {0, 1, VCOM_TX_EPSIZE \div 2, VCOM_TX_EPSIZE \div 2 + 1}
PktLens == 0 .. MaxPkt
PktLensFull == PktLens \cup {VCOM_RX_EPSIZE}
(* what a read past the end of vcomBufferRx may return *)
OobBytes == {0, 255}

(* shared state an application call finds on entry *)
TxWords == usb_pma_ptr(VCOM_TX_ADDR) .. (usb_pma_ptr(VCOM_TX_ADDR + VCOM_TX_EPSIZE) - 1)
TxBuffer == [x \in TxWords |-> pma[x]]

Snapshot ==
    [rxStat |-> StatRx(EP[VCOM_RX_ENDP]), txStat |-> StatTx(EP[VCOM_TX_ENDP]),
     countTx |-> countTx, newBytes |-> newBytes, rx_offset |-> rx_offset,
     txCount |-> usb_get_ep_tx_count(pma, VCOM_TX_ENDP), txBuffer |-> TxBuffer,
     txPending |-> txPending, inFlight |-> inFlight]

Done(name, arg, ret, res) == [name |-> name, arg |-> arg, ret |-> ret, res |-> res]

(* ------------------------------------------------------------------ *)
(* Power-on state                                                      *)
(* ------------------------------------------------------------------ *)
InitDriver ==
    /\ pma = [x \in PmaWords |-> 0]
    /\ vcomBufferRx = [x \in 0 .. (VCOM_RX_BUFLEN - 1) |-> 0]
    /\ countTx = 0
    /\ recvBufIn = 0
    /\ recvBufOut = 0
    /\ maxNewBytes = VCOM_RX_BUFLEN
    /\ newBytes = 0
    /\ rx_offset = 0
    /\ reset_state = DTR_UNSET
    /\ line_dtr_rts = 0
    /\ last_request = 0
    /\ CopyData = "NULL"
    /\ usbState = USB_UNCONNECTED
    /\ pc = "idle"
    /\ len = 0 /\ i = 0 /\ tmp = 0 /\ epr = 0
    /\ buf = <<>> /\ src = <<>>
    /\ op = Done("init", <<>>, 0, "")
    /\ pkt = <<>> /\ got = <<>>
    /\ lostBytes = FALSE /\ clobbered = FALSE
    /\ txPending = FALSE /\ inFlight = FALSE
    /\ nRegCalls = 0
    /\ putc = [at |-> "out", ch |-> 0, calls |-> 0, retried |-> FALSE, sent |-> 0]
    /\ nResets = 0
    /\ dtrBits = <<>>
    /\ pre = Snapshot

Init ==
    /\ EP = [e \in Endpoints |-> 0]
    /\ InitDriver

(* ------------------------------------------------------------------ *)
(* A register routine run to completion: read, compute, write          *)
(* ------------------------------------------------------------------ *)
SetRxStat(r, status) == HwEpWrite(r, usb_set_ep_rx_stat(r, status))
SetTxStat(r, status) == HwEpWrite(r, usb_set_ep_tx_stat(r, status))
SetType(r, type) == HwEpWrite(r, usb_set_ep_type(r, type))
ClearStatusOut(r) == HwEpWrite(r, usb_clear_status_out(r))
ClearCtrRx(r) == HwEpWrite(r, usb_clear_ctr_rx(r))
ClearCtrTx(r) == HwEpWrite(r, usb_clear_ctr_tx(r))

(* ------------------------------------------------------------------ *)
(* The peripheral: a correct OUT transfer stores the packet at the     *)
(* endpoint's RX address, its length in the count word, answers NAK    *)
(* from then on, flips DTOG_RX and raises CTR_RX; a correct IN         *)
(* transfer does the same for the TX side.                             *)
(* ------------------------------------------------------------------ *)
HwRxPma(m, ep, data) ==
    LET m1 == usb_copy_to_pma(m, data, Len(data), usb_get_ep_rx_addr(m, ep))
        w == m1[usb_ep_rx_count_ptr(ep)]
    IN  [m1 EXCEPT ![usb_ep_rx_count_ptr(ep)] = (w \div 1024) * 1024 + Len(data)]

HwRxEp(r) ==
    LET nak == BitXor(BitAnd(r, BitNot(USB_EP_STAT_RX)), USB_EP_STAT_RX_NAK)
    IN  BitOr(BitXor(nak, USB_EP_DTOG_RX), USB_EP_CTR_RX)

HwTxEp(r) ==
    LET nak == BitXor(BitAnd(r, BitNot(USB_EP_STAT_TX)), USB_EP_STAT_TX_NAK)
    IN  BitOr(BitXor(nak, USB_EP_DTOG_TX), USB_EP_CTR_TX)

(* ------------------------------------------------------------------ *)
(* Interrupt context                                                   *)
(* ------------------------------------------------------------------ *)
(* vcomDataRxCb, run on the packet memory m and registers e the        *)
(* interrupt entry left behind                                         *)
vcomDataRxCb(m, e) ==
    LET n == usb_get_ep_rx_count(m, VCOM_RX_ENDP)
    IN  /\ newBytes' = n
        /\ EP' = [e EXCEPT ![VCOM_RX_ENDP] = SetRxStat(@, USB_EP_STAT_RX_NAK)]
        /\ vcomBufferRx' = usb_copy_from_pma(vcomBufferRx, m, n, VCOM_RX_ADDR)
        /\ pma' = m

(* RX complete on the bulk OUT endpoint: hardware, CTR dispatch, callback *)
RxComplete(K) ==
    /\ usbState # USB_UNCONNECTED
    /\ StatRx(EP[VCOM_RX_ENDP]) = USB_EP_STAT_RX_VALID
    /\ \E seed \in RxPayloads, k \in K :
          /\ k <= RxAllocated(pma[usb_ep_rx_count_ptr(VCOM_RX_ENDP)])
          /\ LET data == Bytes(seed, k)
                 m == HwRxPma(pma, VCOM_RX_ENDP, data)
                 e == [EP EXCEPT ![VCOM_RX_ENDP] = ClearCtrRx(HwRxEp(@))]
             IN  /\ vcomDataRxCb(m, e)
                 /\ pkt' = data
                 /\ op' = Done("vcomDataRxCb", <<k>>, 0, "")
    /\ got' = <<>>
    /\ lostBytes' = (lostBytes \/ got # pkt)
    /\ UNCHANGED pre
    /\ UNCHANGED <<countTx, rx_offset, clobbered, txHist, nRegCalls, putc, nResets, dtrBits>>
    /\ UNCHANGED <<fifoVars, devVars, lineVars, pc, localVars>>

(* a faulty variant: the handler leaves the count of bytes in flight *)
vcomDataTxCb_keeps_count ==
    countTx' = countTx

vcomDataTxCb ==
    countTx' = 0

(* TX complete on the bulk IN endpoint *)
TxComplete ==
    /\ usbState # USB_UNCONNECTED
    /\ StatTx(EP[VCOM_TX_ENDP]) = USB_EP_STAT_TX_VALID
    /\ EP' = [EP EXCEPT ![VCOM_TX_ENDP] = ClearCtrTx(HwTxEp(@))]
    /\ vcomDataTxCb
    /\ txPending' = FALSE
    /\ inFlight' = FALSE
    /\ op' = Done("vcomDataTxCb", <<>>, 0, "")
    /\ UNCHANGED pre
    /\ UNCHANGED <<pma, rxVars, fifoVars, devVars, lineVars, pc, localVars, rxHist,
                   nRegCalls, putc, nResets, dtrBits>>

(* the endpoint registers and the packet memory after usbReset *)
usbResetEP(e) ==
    [e EXCEPT
       ![USB_EP0] = SetRxStat(ClearStatusOut(SetTxStat(
                        SetType(@, USB_EP_EP_TYPE_CONTROL), USB_EP_STAT_TX_STALL)),
                        USB_EP_STAT_RX_VALID),
       ![VCOM_NOTIFICATION_ENDP] = SetRxStat(SetTxStat(
                        SetType(@, USB_EP_EP_TYPE_INTERRUPT), USB_EP_STAT_TX_NAK),
                        USB_EP_STAT_RX_DISABLED),
       ![VCOM_RX_ENDP] = SetRxStat(SetType(@, USB_EP_EP_TYPE_BULK),
                        USB_EP_STAT_RX_VALID),
       ![VCOM_TX_ENDP] = SetRxStat(SetTxStat(
                        SetType(@, USB_EP_EP_TYPE_BULK), USB_EP_STAT_TX_NAK),
                        USB_EP_STAT_RX_DISABLED)]

usbResetPma(m) ==
    LET m1 == usb_set_ep_rx_addr(m, USB_EP0, VCOM_CTRL_RX_ADDR)
        m2 == usb_set_ep_tx_addr(m1, USB_EP0, VCOM_CTRL_TX_ADDR)
        m3 == usb_set_ep_rx_count(m2, USB_EP0, MAX_PACKET_SIZE)
        m4 == usb_set_ep_tx_addr(m3, VCOM_NOTIFICATION_ENDP, VCOM_NOTIFICATION_ADDR)
        m5 == usb_set_ep_rx_addr(m4, VCOM_RX_ENDP, 272)
        m6 == usb_set_ep_rx_count(m5, VCOM_RX_ENDP, 64)
    IN  usb_set_ep_tx_addr(m6, VCOM_TX_ENDP, VCOM_TX_ADDR)

(* the driver variables usbReset assigns *)
usbResetVars ==
    /\ recvBufIn' = 0
    /\ recvBufOut' = 0
    /\ maxNewBytes' = VCOM_RX_EPSIZE
    /\ countTx' = 0
    /\ UNCHANGED <<rxVars, lineVars>>

usbReset ==
    /\ nResets < MaxResets
    /\ usbState' = USB_ATTACHED
    /\ EP' = usbResetEP(EP)
    /\ pma' = usbResetPma(pma)
    /\ usbResetVars
    /\ nResets' = nResets + 1
    /\ inFlight' = FALSE
    /\ op' = Done("usbReset", <<>>, 0, "")
    /\ UNCHANGED pre
    /\ UNCHANGED <<pc, localVars, rxHist, txPending, nRegCalls, putc, dtrBits>>

(* a faulty variant: the level of DTR alone, no falling edge *)
NextResetState_level(state, new_signal) ==
    IF BitAnd(new_signal, CONTROL_LINE_DTR) = 0 THEN DTR_LOW ELSE DTR_HIGH

(* a faulty variant: any line raised counts as DTR *)
NextResetState_any_line(state, new_signal) ==
    CASE state = DTR_HIGH ->
            IF new_signal = 0 THEN DTR_NEGEDGE ELSE DTR_HIGH
      [] OTHER ->
            IF new_signal = 0 THEN DTR_LOW ELSE DTR_HIGH

(* a faulty variant: a second DTR=0 does not leave NEGEDGE *)
NextResetState_sticky(state, new_signal) ==
    CASE state \in {DTR_HIGH, DTR_NEGEDGE} ->
            IF BitAnd(new_signal, CONTROL_LINE_DTR) = 0 THEN DTR_NEGEDGE ELSE DTR_HIGH
      [] OTHER ->
            IF BitAnd(new_signal, CONTROL_LINE_DTR) = 0 THEN DTR_LOW ELSE DTR_HIGH

(* a faulty variant: the detector waits in UNSET for DTR to be raised *)
NextResetState_waits_for_high(state, new_signal) ==
    CASE state = DTR_UNSET ->
            IF BitAnd(new_signal, CONTROL_LINE_DTR) = 0 THEN DTR_UNSET ELSE DTR_HIGH
      [] state = DTR_HIGH ->
            IF BitAnd(new_signal, CONTROL_LINE_DTR) = 0 THEN DTR_NEGEDGE ELSE DTR_HIGH
      [] OTHER ->
            IF BitAnd(new_signal, CONTROL_LINE_DTR) = 0 THEN DTR_LOW ELSE DTR_HIGH

(* the reset detector after a SET_CONTROL_LINE_STATE carrying new_signal *)
NextResetState(state, new_signal) ==
    CASE state = DTR_UNSET ->
            IF BitAnd(new_signal, CONTROL_LINE_DTR) = 0 THEN DTR_LOW ELSE DTR_HIGH
      [] state = DTR_HIGH ->
            IF BitAnd(new_signal, CONTROL_LINE_DTR) = 0 THEN DTR_NEGEDGE ELSE DTR_HIGH
      [] state = DTR_NEGEDGE ->
            IF BitAnd(new_signal, CONTROL_LINE_DTR) = 0 THEN DTR_LOW ELSE DTR_HIGH
      [] state = DTR_LOW ->
            IF BitAnd(new_signal, CONTROL_LINE_DTR) = 0 THEN DTR_LOW ELSE DTR_HIGH

usb_cdcacm_get_dtr ==
    IF BitAnd(line_dtr_rts, CONTROL_LINE_DTR) # 0 THEN 1 ELSE 0

usb_cdcacm_get_rts ==
    IF BitAnd(line_dtr_rts, CONTROL_LINE_RTS) # 0 THEN 1 ELSE 0

TypeRecipients == {CLASS_REQUEST + INTERFACE_RECIPIENT, CLASS_REQUEST}
NoDataRequests == {SET_COMM_FEATURE, SET_CONTROL_LINE_STATE, 0}
DataRequests == {GET_LINE_CODING, SET_LINE_CODING, 0}
ValueBytes == {0, 1, 2, 3, 5}

(* a faulty variant: the type and recipient of the request are not     *)
(* looked at                                                           *)
usbNoDataSetup_any_recipient(Type_Recipient, request, bb0) ==
    IF request = SET_CONTROL_LINE_STATE
    THEN LET new_signal == BitAnd(bb0, BitOr(CONTROL_LINE_DTR, CONTROL_LINE_RTS))
         IN  /\ line_dtr_rts' = BitAnd(new_signal, 3)
             /\ reset_state' = NextResetState(reset_state, new_signal)
             /\ dtrBits' = Append(dtrBits, BitAnd(new_signal, CONTROL_LINE_DTR))
             /\ op' = Done("usbNoDataSetup", <<Type_Recipient, request, bb0>>, 0, USB_SUCCESS)
    ELSE /\ UNCHANGED <<line_dtr_rts, reset_state, dtrBits>>
         /\ op' = Done("usbNoDataSetup", <<Type_Recipient, request, bb0>>, 0,
                       IF request = SET_COMM_FEATURE THEN USB_SUCCESS ELSE USB_UNSUPPORT)

usbNoDataSetup(Type_Recipient, request, bb0) ==
    IF Type_Recipient = CLASS_REQUEST + INTERFACE_RECIPIENT
       /\ request = SET_CONTROL_LINE_STATE
    THEN LET new_signal == BitAnd(bb0, BitOr(CONTROL_LINE_DTR, CONTROL_LINE_RTS))
         IN  /\ line_dtr_rts' = BitAnd(new_signal, 3)
             /\ reset_state' = NextResetState(reset_state, new_signal)
             /\ dtrBits' = Append(dtrBits, BitAnd(new_signal, CONTROL_LINE_DTR))
             /\ op' = Done("usbNoDataSetup", <<Type_Recipient, request, bb0>>, 0, USB_SUCCESS)
    ELSE /\ UNCHANGED <<line_dtr_rts, reset_state, dtrBits>>
         /\ op' = Done("usbNoDataSetup", <<Type_Recipient, request, bb0>>, 0,
                       IF Type_Recipient = CLASS_REQUEST + INTERFACE_RECIPIENT
                          /\ request = SET_COMM_FEATURE
                       THEN USB_SUCCESS ELSE USB_UNSUPPORT)

(* the host sends requests once the bus reset has attached the device *)
NoDataSetup ==
    /\ usbState # USB_UNCONNECTED
    /\ Len(dtrBits) < MaxDtrHist
    /\ \E tr \in TypeRecipients, request \in NoDataRequests, bb0 \in ValueBytes :
          usbNoDataSetup(tr, request, bb0)
    /\ UNCHANGED pre
    /\ UNCHANGED <<hwVars, rxVars, countTx, fifoVars, devVars, last_request, CopyData,
                   pc, localVars, rxHist, txHist, nRegCalls, putc, nResets>>

usbDataSetup(Type_Recipient, request) ==
    IF Type_Recipient = CLASS_REQUEST + INTERFACE_RECIPIENT
       /\ request \in {GET_LINE_CODING, SET_LINE_CODING}
    THEN /\ last_request' = request
         /\ CopyData' = "vcomGetSetLineCoding"
         /\ op' = Done("usbDataSetup", <<Type_Recipient, request>>, 0, USB_SUCCESS)
    ELSE /\ UNCHANGED <<last_request, CopyData>>
         /\ op' = Done("usbDataSetup", <<Type_Recipient, request>>, 0, USB_UNSUPPORT)

DataSetup ==
    /\ usbState # USB_UNCONNECTED
    /\ \E tr \in TypeRecipients, request \in DataRequests : usbDataSetup(tr, request)
    /\ UNCHANGED pre
    /\ UNCHANGED <<hwVars, rxVars, countTx, fifoVars, devVars, reset_state, line_dtr_rts,
                   pc, localVars, rxHist, txHist, nRegCalls, putc, nResets, dtrBits>>

(* ------------------------------------------------------------------ *)
(* Application context: usb_cdcacm_rx, one memory access per step      *)
(* ------------------------------------------------------------------ *)
(* vcomBufferRx[idx]; a read past the array returns whatever lies there *)
RxRead(idx) ==
    IF idx < VCOM_RX_BUFLEN THEN {vcomBufferRx[idx]} ELSE OobBytes

(* the locals of a call are dead once it has returned *)
Return ==
    /\ pc' = "idle"
    /\ len' = 0 /\ i' = 0 /\ tmp' = 0 /\ epr' = 0
    /\ buf' = <<>> /\ src' = <<>>

rx_call(L) ==
    /\ pc = "idle"
    /\ newBytes >= 0          \* the model stops following a wrapped counter
    /\ \E l \in L : /\ len' = l
                         /\ op' = Done("usb_cdcacm_rx:call", <<l>>, 0, "")
    /\ buf' = <<>>
    /\ i' = 0
    /\ pre' = Snapshot
    /\ pc' = "rx_cmp"
    /\ UNCHANGED <<hwVars, rxVars, countTx, fifoVars, devVars, lineVars, tmp, epr, src,
                   pkt, got, lostBytes, clobbered, txHist, nRegCalls, putc, nResets, dtrBits>>

(* if (len > newBytes) *)
rx_cmp ==
    /\ pc = "rx_cmp"
    /\ pc' = IF UGt(len, newBytes) THEN "rx_clamp" ELSE "rx_loop"
    /\ UNCHANGED <<hwVars, rxVars, countTx, fifoVars, devVars, lineVars, localVars,
                   op, pre, rxHist, txHist, nRegCalls, putc, nResets, dtrBits>>

(* a faulty variant: the request is not clamped to what is available *)
rx_clamp_skipped ==
    /\ pc = "rx_clamp"
    /\ pc' = "rx_loop"
    /\ UNCHANGED <<hwVars, rxVars, countTx, fifoVars, devVars, lineVars, localVars,
                   op, pre, rxHist, txHist, nRegCalls, putc, nResets, dtrBits>>

(* len = newBytes *)
rx_clamp ==
    /\ pc = "rx_clamp"
    /\ len' = newBytes
    /\ pc' = "rx_loop"
    /\ UNCHANGED <<hwVars, rxVars, countTx, fifoVars, devVars, lineVars, i, tmp, epr, buf, src,
                   op, pre, rxHist, txHist, nRegCalls, putc, nResets, dtrBits>>

(* for (i = 0; i < len; i++) buf[i] = vcomBufferRx[i + rx_offset] *)
rx_loop ==
    /\ pc = "rx_loop"
    /\ IF UGt(len, i)
       THEN /\ \E b \in RxRead(i + rx_offset) :
                  /\ buf' = Append(buf, b)
                  /\ got' = Append(got, b)
            /\ i' = i + 1
            /\ pc' = "rx_loop"
       ELSE /\ pc' = "rx_ld"
            /\ UNCHANGED <<buf, got, i>>
    /\ UNCHANGED <<hwVars, rxVars, countTx, fifoVars, devVars, lineVars, len, tmp, epr, src,
                   op, pre, pkt, lostBytes, clobbered, txHist, nRegCalls, putc, nResets, dtrBits>>

(* newBytes -= len: the load *)
rx_ld ==
    /\ pc = "rx_ld"
    /\ tmp' = newBytes
    /\ pc' = "rx_st"
    /\ UNCHANGED <<hwVars, rxVars, countTx, fifoVars, devVars, lineVars, len, i, epr, buf, src,
                   op, pre, rxHist, txHist, nRegCalls, putc, nResets, dtrBits>>

(* newBytes -= len: the store *)
rx_st ==
    /\ pc = "rx_st"
    /\ newBytes' = tmp - len
    /\ clobbered' = (clobbered \/ newBytes # tmp)
    /\ pc' = "rx_off"
    /\ UNCHANGED <<hwVars, vcomBufferRx, rx_offset, countTx, fifoVars, devVars, lineVars,
                   localVars, op, pre, pkt, got, lostBytes, txHist, nRegCalls, putc, nResets, dtrBits>>

(* rx_offset += len *)
rx_off ==
    /\ pc = "rx_off"
    /\ rx_offset' = rx_offset + len
    /\ pc' = "rx_chk"
    /\ UNCHANGED <<hwVars, vcomBufferRx, newBytes, countTx, fifoVars, devVars, lineVars,
                   localVars, op, pre, rxHist, txHist, nRegCalls, putc, nResets, dtrBits>>

(* a faulty variant: the endpoint is re-armed on every call *)
rx_chk_always ==
    /\ pc = "rx_chk"
    /\ pc' = "rx_cnt"
    /\ UNCHANGED <<op, localVars>>
    /\ UNCHANGED <<hwVars, rxVars, countTx, fifoVars, devVars, lineVars,
                   pre, rxHist, txHist, nRegCalls, putc, nResets, dtrBits>>

(* if (newBytes == 0), else return len *)
rx_chk ==
    /\ pc = "rx_chk"
    /\ IF newBytes = 0
       THEN /\ pc' = "rx_cnt"
            /\ UNCHANGED <<op, localVars>>
       ELSE /\ Return
            /\ op' = Done("usb_cdcacm_rx", op.arg, len, "")
    /\ UNCHANGED <<hwVars, rxVars, countTx, fifoVars, devVars, lineVars,
                   pre, rxHist, txHist, nRegCalls, putc, nResets, dtrBits>>

(* usb_set_ep_rx_count(VCOM_RX_ENDP, VCOM_RX_EPSIZE) *)
rx_cnt ==
    /\ pc = "rx_cnt"
    /\ pma' = usb_set_ep_rx_count(pma, VCOM_RX_ENDP, VCOM_RX_EPSIZE)
    /\ pc' = "rx_rd"
    /\ UNCHANGED <<EP, rxVars, countTx, fifoVars, devVars, lineVars, localVars,
                   op, pre, rxHist, txHist, nRegCalls, putc, nResets, dtrBits>>

(* usb_set_ep_rx_stat(VCOM_RX_ENDP, USB_EP_STAT_RX_VALID): the register read *)
rx_rd ==
    /\ pc = "rx_rd"
    /\ epr' = EP[VCOM_RX_ENDP]
    /\ pc' = "rx_wr"
    /\ UNCHANGED <<hwVars, rxVars, countTx, fifoVars, devVars, lineVars, len, i, tmp, buf, src,
                   op, pre, rxHist, txHist, nRegCalls, putc, nResets, dtrBits>>

(* ... and the register write *)
rx_wr ==
    /\ pc = "rx_wr"
    /\ EP' = [EP EXCEPT ![VCOM_RX_ENDP] =
                 HwEpWrite(@, usb_set_ep_rx_stat(epr, USB_EP_STAT_RX_VALID))]
    /\ pc' = "rx_zero"
    /\ UNCHANGED <<pma, rxVars, countTx, fifoVars, devVars, lineVars, localVars,
                   op, pre, rxHist, txHist, nRegCalls, putc, nResets, dtrBits>>

(* rx_offset = 0; return len *)
rx_zero ==
    /\ pc = "rx_zero"
    /\ rx_offset' = 0
    /\ Return
    /\ op' = Done("usb_cdcacm_rx", op.arg, len, "")
    /\ UNCHANGED <<hwVars, vcomBufferRx, newBytes, countTx, fifoVars, devVars, lineVars,
                   pre, rxHist, txHist, nRegCalls, putc, nResets, dtrBits>>

usb_cdcacm_rx(L) ==
    \/ rx_call(L) \/ rx_cmp \/ rx_clamp \/ rx_loop \/ rx_ld \/ rx_st
    \/ rx_off \/ rx_chk \/ rx_cnt \/ rx_rd \/ rx_wr \/ rx_zero

(* ------------------------------------------------------------------ *)
(* Application context: usb_cdcacm_tx                                  *)
(* ------------------------------------------------------------------ *)
(* while (!usb_cdcacm_tx(...)): the loop test of the usb_cdcacm_putc   *)
(* the call returns to, if any, on the value ret the call returns; the *)
(* test reads nothing but that value                                   *)
putc_test(ret) ==
    IF putc.at = "out" THEN putc
    ELSE IF ret # 0 THEN [putc EXCEPT !.at = "out", !.sent = @ + ret]
    ELSE [putc EXCEPT !.retried = TRUE]

tx_call(L) ==
    /\ pc = "idle"
    /\ \E l \in L, seed \in TxPayloads :
          /\ len' = l
          /\ src' = Bytes(seed, l)
          /\ op' = Done("usb_cdcacm_tx:call", <<l>>, 0, "")
    /\ pre' = Snapshot
    /\ pc' = "tx_busy"
    /\ UNCHANGED <<hwVars, rxVars, countTx, fifoVars, devVars, lineVars, i, tmp, epr, buf,
                   rxHist, txHist, nRegCalls, putc, nResets, dtrBits>>

(* a faulty variant: a transmission in flight does not stop the call *)
tx_busy_ignored ==
    /\ pc = "tx_busy"
    /\ pc' = "tx_cap"
    /\ UNCHANGED <<op, localVars>>
    /\ UNCHANGED <<hwVars, rxVars, countTx, fifoVars, devVars, lineVars,
                   pre, rxHist, txHist, nRegCalls, putc, nResets, dtrBits>>

(* a faulty variant: a call that finds a transmission in flight gives  *)
(* the pending packet up                                               *)
tx_busy_gives_up ==
    /\ pc = "tx_busy"
    /\ IF countTx # 0
       THEN /\ Return
            /\ countTx' = 0
            /\ op' = Done("usb_cdcacm_tx", op.arg, 0, "")
            /\ putc' = putc_test(0)
       ELSE /\ pc' = "tx_cap"
            /\ UNCHANGED <<op, localVars, countTx, putc>>
    /\ UNCHANGED <<hwVars, rxVars, fifoVars, devVars, lineVars,
                   pre, rxHist, txHist, nRegCalls, nResets, dtrBits>>

(* if (countTx) return 0 *)
tx_busy ==
    /\ pc = "tx_busy"
    /\ IF countTx # 0
       THEN /\ Return
            /\ op' = Done("usb_cdcacm_tx", op.arg, 0, "")
            /\ putc' = putc_test(0)
       ELSE /\ pc' = "tx_cap"
            /\ UNCHANGED <<op, localVars, putc>>
    /\ UNCHANGED <<hwVars, rxVars, countTx, fifoVars, devVars, lineVars,
                   pre, rxHist, txHist, nRegCalls, nResets, dtrBits>>

(* a faulty variant: the cap is the whole endpoint buffer *)
tx_cap_whole ==
    /\ pc = "tx_cap"
    /\ LET capped == IF len > VCOM_TX_EPSIZE THEN VCOM_TX_EPSIZE ELSE len
       IN  IF capped # 0
           THEN /\ len' = capped
                /\ pc' = "tx_copy"
                /\ UNCHANGED <<op, i, tmp, epr, buf, src, putc>>
           ELSE /\ Return
                /\ op' = Done("usb_cdcacm_tx", op.arg, capped, "")
                /\ putc' = putc_test(capped)
    /\ UNCHANGED <<hwVars, rxVars, countTx, fifoVars, devVars, lineVars,
                   pre, rxHist, txHist, nRegCalls, nResets, dtrBits>>

(* a faulty variant: an empty request is submitted like any other *)
tx_cap_unguarded ==
    /\ pc = "tx_cap"
    /\ len' = (IF len > VCOM_TX_EPSIZE \div 2 THEN VCOM_TX_EPSIZE \div 2 ELSE len)
    /\ pc' = "tx_copy"
    /\ UNCHANGED <<op, i, tmp, epr, buf, src>>
    /\ UNCHANGED <<hwVars, rxVars, countTx, fifoVars, devVars, lineVars,
                   pre, rxHist, txHist, nRegCalls, putc, nResets, dtrBits>>

(* if (len > VCOM_TX_EPSIZE / 2) len = VCOM_TX_EPSIZE / 2; if (len) ... *)
tx_cap ==
    /\ pc = "tx_cap"
    /\ LET capped == IF len > VCOM_TX_EPSIZE \div 2
                      THEN VCOM_TX_EPSIZE \div 2 ELSE len
       IN  IF capped # 0
           THEN /\ len' = capped
                /\ pc' = "tx_copy"
                /\ UNCHANGED <<op, i, tmp, epr, buf, src, putc>>
           ELSE /\ Return
                /\ op' = Done("usb_cdcacm_tx", op.arg, capped, "")
                /\ putc' = putc_test(capped)
    /\ UNCHANGED <<hwVars, rxVars, countTx, fifoVars, devVars, lineVars,
                   pre, rxHist, txHist, nRegCalls, nResets, dtrBits>>

(* usb_copy_to_pma(buf, len, VCOM_TX_ADDR) *)
tx_copy ==
    /\ pc = "tx_copy"
    /\ pma' = usb_copy_to_pma(pma, src, len, VCOM_TX_ADDR)
    /\ pc' = "tx_cnt"
    /\ UNCHANGED <<EP, rxVars, countTx, fifoVars, devVars, lineVars, localVars,
                   op, pre, rxHist, txHist, nRegCalls, putc, nResets, dtrBits>>

(* usb_set_ep_tx_count(VCOM_TX_ENDP, len) *)
tx_cnt ==
    /\ pc = "tx_cnt"
    /\ pma' = usb_set_ep_tx_count(pma, VCOM_TX_ENDP, len)
    /\ pc' = "tx_ld"
    /\ UNCHANGED <<EP, rxVars, countTx, fifoVars, devVars, lineVars, localVars,
                   op, pre, rxHist, txHist, nRegCalls, putc, nResets, dtrBits>>

(* countTx += len: the load *)
tx_ld ==
    /\ pc = "tx_ld"
    /\ tmp' = countTx
    /\ pc' = "tx_st"
    /\ UNCHANGED <<hwVars, rxVars, countTx, fifoVars, devVars, lineVars, len, i, epr, buf, src,
                   op, pre, rxHist, txHist, nRegCalls, putc, nResets, dtrBits>>

(* a faulty variant: the length in flight is not recorded *)
tx_st_not_recorded ==
    /\ pc = "tx_st"
    /\ txPending' = TRUE
    /\ inFlight' = TRUE
    /\ pc' = "tx_rd"
    /\ UNCHANGED <<hwVars, rxVars, countTx, fifoVars, devVars, lineVars, localVars,
                   op, pre, rxHist, nRegCalls, putc, nResets, dtrBits>>

(* countTx += len: the store *)
tx_st ==
    /\ pc = "tx_st"
    /\ countTx' = tmp + len
    /\ txPending' = TRUE
    /\ inFlight' = TRUE
    /\ pc' = "tx_rd"
    /\ UNCHANGED <<hwVars, rxVars, fifoVars, devVars, lineVars, localVars,
                   op, pre, rxHist, nRegCalls, putc, nResets, dtrBits>>

(* usb_set_ep_tx_stat(VCOM_TX_ENDP, USB_EP_STAT_TX_VALID): the register read *)
tx_rd ==
    /\ pc = "tx_rd"
    /\ epr' = EP[VCOM_TX_ENDP]
    /\ pc' = "tx_wr"
    /\ UNCHANGED <<hwVars, rxVars, countTx, fifoVars, devVars, lineVars, len, i, tmp, buf, src,
                   op, pre, rxHist, txHist, nRegCalls, putc, nResets, dtrBits>>

(* ... the register write; return len *)
tx_wr ==
    /\ pc = "tx_wr"
    /\ EP' = [EP EXCEPT ![VCOM_TX_ENDP] =
                 HwEpWrite(@, usb_set_ep_tx_stat(epr, USB_EP_STAT_TX_VALID))]
    /\ Return
    /\ op' = Done("usb_cdcacm_tx", op.arg, len, "")
    /\ putc' = putc_test(len)
    /\ UNCHANGED <<pma, rxVars, countTx, fifoVars, devVars, lineVars,
                   pre, rxHist, txHist, nRegCalls, nResets, dtrBits>>

usb_cdcacm_tx(L) ==
    \/ tx_call(L) \/ tx_busy \/ tx_cap \/ tx_copy \/ tx_cnt \/ tx_ld \/ tx_st
    \/ tx_rd \/ tx_wr

(* ------------------------------------------------------------------ *)
(* Application context: usb_cdcacm_putc                                *)
(* ------------------------------------------------------------------ *)
PutcChars == {Bytes(seed, 1)[1] : seed \in TxPayloads}

(* void usb_cdcacm_putc(char ch) *)
putc_call ==
    /\ pc = "idle"
    /\ putc.at = "out"
    /\ putc.calls < MaxPutcCalls
    /\ \E ch \in PutcChars :
          /\ putc' = [at |-> "loop", ch |-> ch, calls |-> putc.calls + 1,
                      retried |-> FALSE, sent |-> 0]
          /\ op' = Done("usb_cdcacm_putc:call", <<ch>>, 0, "")
    /\ UNCHANGED <<hwVars, rxVars, countTx, fifoVars, devVars, lineVars, pc, localVars,
                   pre, rxHist, txHist, nRegCalls, nResets, dtrBits>>

(* the call of usb_cdcacm_tx on the one byte ch *)
putc_try ==
    /\ pc = "idle"
    /\ putc.at = "loop"
    /\ len' = 1
    /\ src' = <<putc.ch>>
    /\ op' = Done("usb_cdcacm_tx:call", <<1>>, 0, "")
    /\ pre' = Snapshot
    /\ pc' = "tx_busy"
    /\ UNCHANGED <<hwVars, rxVars, countTx, fifoVars, devVars, lineVars, i, tmp, epr, buf,
                   rxHist, txHist, nRegCalls, putc, nResets, dtrBits>>

(* the steps of a running usb_cdcacm_putc *)
putc_run ==
    \/ putc_try \/ tx_busy \/ tx_cap \/ tx_copy \/ tx_cnt \/ tx_ld \/ tx_st
    \/ tx_rd \/ tx_wr

usb_cdcacm_putc ==
    \/ putc_call \/ putc_run

(* ------------------------------------------------------------------ *)
(* The register convenience routines called on their own, on a         *)
(* register holding any combination of status, toggle and CTR bits     *)
(* ------------------------------------------------------------------ *)
RegEp == VCOM_RX_ENDP

RegPlain == {0,
             USB_EP_EP_TYPE_CONTROL + 1,
             USB_EP_SETUP + USB_EP_EP_TYPE_INTERRUPT + USB_EP_EP_KIND + USB_EP_EA}

RegValues ==
    {rs + ts + dr + dt + cr + ct + p :
        rs \in RxStatuses, ts \in TxStatuses,
        dr \in {0, USB_EP_DTOG_RX}, dt \in {0, USB_EP_DTOG_TX},
        cr \in {0, USB_EP_CTR_RX}, ct \in {0, USB_EP_CTR_TX}, p \in RegPlain}

RegCalls ==
    ({"usb_set_ep_rx_stat"} \X RxStatuses) \cup ({"usb_set_ep_tx_stat"} \X TxStatuses)
    \cup ({"usb_set_ep_type"} \X EpTypes) \cup ({"usb_set_ep_kind"} \X {0, USB_EP_EP_KIND})
    \cup ({"usb_clear_status_out", "usb_clear_ctr_rx", "usb_clear_ctr_tx"} \X {0})

(* the value the routine writes, from the value r it read *)
RegWritten(name, r, arg) ==
    CASE name = "usb_set_ep_rx_stat" -> usb_set_ep_rx_stat(r, arg)
      [] name = "usb_set_ep_tx_stat" -> usb_set_ep_tx_stat(r, arg)
      [] name = "usb_set_ep_type" -> usb_set_ep_type(r, arg)
      [] name = "usb_set_ep_kind" -> usb_set_ep_kind(r, arg)
      [] name = "usb_clear_status_out" -> usb_clear_status_out(r)
      [] name = "usb_clear_ctr_rx" -> usb_clear_ctr_rx(r)
      [] name = "usb_clear_ctr_tx" -> usb_clear_ctr_tx(r)

InitReg ==
    /\ \E r \in RegValues : EP = [e \in Endpoints |-> IF e = RegEp THEN r ELSE 0]
    /\ InitDriver

(* uint32_t epr = USB_BASE->EP[ep] *)
reg_rd ==
    /\ pc = "idle"
    /\ nRegCalls < MaxRegCalls
    /\ nRegCalls' = nRegCalls + 1
    /\ \E c \in RegCalls : op' = Done("reg_rd", c, 0, "")
    /\ epr' = EP[RegEp]
    /\ pc' = "reg_wr"
    /\ UNCHANGED <<hwVars, rxVars, countTx, fifoVars, devVars, lineVars, len, i, tmp, buf, src,
                   pre, rxHist, txHist, putc, nResets, dtrBits>>

(* USB_BASE->EP[ep] = epr, modified; the record keeps the value the     *)
(* register held when it was written                                   *)
reg_wr ==
    /\ pc = "reg_wr"
    /\ EP' = [EP EXCEPT ![RegEp] = HwEpWrite(@, RegWritten(op.arg[1], epr, op.arg[2]))]
    /\ op' = Done(op.arg[1], <<op.arg[2]>>, EP[RegEp], "")
    /\ pc' = "idle"
    /\ UNCHANGED <<pma, rxVars, countTx, fifoVars, devVars, lineVars, localVars,
                   pre, rxHist, txHist, nRegCalls, putc, nResets, dtrBits>>

(* ------------------------------------------------------------------ *)
(* The buffer descriptor table accessors called on their own, on any   *)
(* endpoint                                                            *)
(* ------------------------------------------------------------------ *)
BdtAddrs == {VCOM_CTRL_RX_ADDR, VCOM_RX_ADDR + 1, 65535}
BdtCounts == {VCOM_TX_EPSIZE \div 2}
BdtRxCounts == {VCOM_RX_EPSIZE}

BdtCalls ==
    ({"usb_set_ep_tx_addr", "usb_set_ep_rx_addr"} \X Endpoints \X BdtAddrs)
    \cup ({"usb_set_ep_tx_count"} \X Endpoints \X BdtCounts)
    \cup ({"usb_set_ep_rx_count"} \X Endpoints \X BdtRxCounts)

(* the table word a setter writes *)
BdtPtr(name, ep) ==
    CASE name = "usb_set_ep_tx_addr" -> usb_ep_tx_addr_ptr(ep)
      [] name = "usb_set_ep_rx_addr" -> usb_ep_rx_addr_ptr(ep)
      [] name = "usb_set_ep_tx_count" -> usb_ep_tx_count_ptr(ep)
      [] name = "usb_set_ep_rx_count" -> usb_ep_rx_count_ptr(ep)

(* the packet memory after the setter has run on m *)
BdtWritten(name, m, ep, v) ==
    CASE name = "usb_set_ep_tx_addr" -> usb_set_ep_tx_addr(m, ep, v)
      [] name = "usb_set_ep_rx_addr" -> usb_set_ep_rx_addr(m, ep, v)
      [] name = "usb_set_ep_tx_count" -> usb_set_ep_tx_count(m, ep, v)
      [] name = "usb_set_ep_rx_count" -> usb_set_ep_rx_count(m, ep, v)

(* what the getter of the field returns *)
BdtRead(name, m, ep) ==
    CASE name = "usb_set_ep_tx_addr" -> usb_get_ep_tx_addr(m, ep)
      [] name = "usb_set_ep_rx_addr" -> usb_get_ep_rx_addr(m, ep)
      [] name = "usb_set_ep_tx_count" -> usb_get_ep_tx_count(m, ep)
      [] name = "usb_set_ep_rx_count" -> usb_get_ep_rx_count(m, ep)

(* one setter call followed by the field's getter *)
bdt_set ==
    /\ pc = "idle"
    /\ nRegCalls < MaxBdtCalls
    /\ nRegCalls' = nRegCalls + 1
    /\ \E c \in BdtCalls :
          /\ pma' = BdtWritten(c[1], pma, c[2], c[3])
          /\ op' = Done(c[1], <<c[2], c[3]>>, BdtRead(c[1], pma', c[2]), "")
    /\ UNCHANGED <<EP, rxVars, countTx, fifoVars, devVars, lineVars, pc, localVars,
                   pre, rxHist, txHist, putc, nResets, dtrBits>>

(* the peripheral completes a transfer on the endpoint between the     *)
(* routine's read of the register and its write                        *)
HwTransfer ==
    /\ pc = "reg_wr"
    /\ EP[RegEp] = epr
    /\ \/ /\ StatRx(epr) = USB_EP_STAT_RX_VALID
          /\ EP' = [EP EXCEPT ![RegEp] = HwRxEp(@)]
       \/ /\ StatTx(epr) = USB_EP_STAT_TX_VALID
          /\ EP' = [EP EXCEPT ![RegEp] = HwTxEp(@)]
    /\ UNCHANGED <<pma, rxVars, countTx, fifoVars, devVars, lineVars, pc, localVars,
                   op, pre, rxHist, txHist, nRegCalls, putc, nResets, dtrBits>>

(* ------------------------------------------------------------------ *)
(* Specifications                                                      *)
(* ------------------------------------------------------------------ *)
Idle == pc = "idle"

(* the register routines, each run from its read to its write *)
NextReg ==
    \/ reg_rd
    \/ reg_wr
SpecReg == InitReg /\ [][NextReg]_vars

(* the register routines, the peripheral completing transfers between  *)
(* a routine's read and its write                                      *)
NextRegHw ==
    \/ reg_rd
    \/ reg_wr
    \/ HwTransfer
SpecRegHw == InitReg /\ [][NextRegHw]_vars

(* the buffer descriptor table accessors *)
NextBdt ==
    \/ bdt_set
SpecBdt == Init /\ [][NextBdt]_vars

(* receive path, interrupts preempting the application anywhere; the   *)
(* bus is reset once, when the device is attached, and not again       *)
NextRx ==
    \/ usb_cdcacm_rx(RxLens)
    \/ RxComplete(PktLens)
    \/ (nResets = 0 /\ usbReset)
SpecRx == Init /\ [][NextRx]_vars

(* receive path, every operation run to completion *)
NextRxSeq ==
    \/ usb_cdcacm_rx(RxLens)
    \/ (Idle /\ RxComplete(PktLens))
    \/ (Idle /\ usbReset)
SpecRxSeq == Init /\ [][NextRxSeq]_vars

(* transmit path, interrupts preempting the application anywhere *)
NextTx ==
    \/ usb_cdcacm_tx(TxLens)
    \/ TxComplete
    \/ usbReset
SpecTx == Init /\ [][NextTx]_vars

(* transmit path, the TX-complete interrupt preempting the application *)
(* anywhere; the bus is reset once, when the device is attached        *)
NextTxIsr ==
    \/ usb_cdcacm_tx(TxLens)
    \/ TxComplete
    \/ (nResets = 0 /\ Idle /\ usbReset)
SpecTxIsr == Init /\ [][NextTxIsr]_vars

(* transmit path, every operation run to completion *)
NextTxSeq ==
    \/ usb_cdcacm_tx(TxLens)
    \/ (Idle /\ TxComplete)
    \/ (Idle /\ usbReset)
SpecTxSeq == Init /\ [][NextTxSeq]_vars

(* usb_cdcacm_putc, interrupts preempting it anywhere *)
NextPutc ==
    \/ usb_cdcacm_putc
    \/ TxComplete
    \/ usbReset
(* the application context runs whenever no handler does, and the      *)
(* peripheral completes the packet of an endpoint that is VALID        *)
SpecPutc == Init /\ [][NextPutc]_vars /\ WF_vars(putc_run) /\ WF_vars(TxComplete)

(* class requests and bus resets *)
NextCtl ==
    \/ NoDataSetup
    \/ DataSetup
    \/ usbReset
SpecCtl == Init /\ [][NextCtl]_vars

(* the whole driver *)
Next ==
    \/ usb_cdcacm_rx(RxLens)
    \/ usb_cdcacm_tx(TxLens)
    \/ RxComplete(PktLens)
    \/ TxComplete
    \/ usbReset
    \/ NoDataSetup
    \/ DataSetup
Spec == Init /\ [][Next]_vars

(* ------------------------------------------------------------------ *)
(* Properties                                                          *)
(* ------------------------------------------------------------------ *)
RxStat == StatRx(EP[VCOM_RX_ENDP])
TxStat == StatTx(EP[VCOM_TX_ENDP])

(* C1: under the hardware write semantics, for every initial register  *)
(* value and every requested status, after usb_set_ep_rx_stat(ep, s)   *)
(* the RX status field equals s and the TX status field, DTOG_RX and   *)
(* DTOG_TX are as they were read; symmetrically for                    *)
(* usb_set_ep_tx_stat(ep, s).  (SpecReg)                               *)
C1_SetStatSetsItsFieldOnly ==
    LET r == EP[RegEp]
    IN  /\ op.name = "usb_set_ep_rx_stat" =>
              /\ StatRx(r) = op.arg[1]
              /\ StatTx(r) = StatTx(epr)
              /\ DtogRx(r) = DtogRx(epr)
              /\ DtogTx(r) = DtogTx(epr)
        /\ op.name = "usb_set_ep_tx_stat" =>
              /\ StatTx(r) = op.arg[1]
              /\ StatRx(r) = StatRx(epr)
              /\ DtogRx(r) = DtogRx(epr)
              /\ DtogTx(r) = DtogTx(epr)

(* a register read as RX VALID, TX STALL, DTOG_RX set has been set to RX NAK *)
C1_Witness ==
    /\ op.name = "usb_set_ep_rx_stat"
    /\ op.arg[1] = USB_EP_STAT_RX_NAK
    /\ StatRx(epr) = USB_EP_STAT_RX_VALID
    /\ StatTx(epr) = USB_EP_STAT_TX_STALL
    /\ DtogRx(epr) = USB_EP_DTOG_RX
    /\ CtrTx(epr) = USB_EP_CTR_TX
    /\ StatRx(EP[RegEp]) = USB_EP_STAT_RX_NAK

(* C2: with no bus reset after the device is attached and vcomDataRxCb *)
(* allowed to preempt usb_cdcacm_rx between any two of its statements, *)
(* in every reachable state newBytes > 0 implies that the RX status of *)
(* the bulk OUT endpoint is not VALID.  (SpecRx)                       *)
C2_NotValidWhileBytesAvailable ==
    newBytes # 0 => RxStat # USB_EP_STAT_RX_VALID

C4_RejectedUntilTxComplete ==
    (op.name = "usb_cdcacm_tx" /\ pre.txPending) =>
        /\ op.ret = 0
        /\ TxBuffer = pre.txBuffer
        /\ usb_get_ep_tx_count(pma, VCOM_TX_ENDP) = pre.txCount
        /\ TxStat = pre.txStat
        /\ countTx = pre.countTx

(* C4, amended: ... every further usb_cdcacm_tx call made before the   *)
(* TX-complete callback runs and before a bus reset returns 0 and      *)
(* leaves the TX packet buffer, the BDT TX count, the TX status and    *)
(* countTx unchanged.  (SpecTxSeq)                                     *)
C4_RejectedWhileInFlight ==
    (op.name = "usb_cdcacm_tx" /\ pre.inFlight) =>
        /\ op.ret = 0
        /\ TxBuffer = pre.txBuffer
        /\ usb_get_ep_tx_count(pma, VCOM_TX_ENDP) = pre.txCount
        /\ TxStat = pre.txStat
        /\ countTx = pre.countTx

(* a call asking for a whole packet has been turned away while the     *)
(* one-byte packet accepted before it is in flight                     *)
C4_Witness ==
    /\ op.name = "usb_cdcacm_tx"
    /\ pre.inFlight /\ pre.countTx = 1
    /\ op.arg[1] = VCOM_TX_EPSIZE \div 2
    /\ op.ret = 0
    /\ TxStat = USB_EP_STAT_TX_VALID

(* C5: for every packet delivered by vcomDataRxCb and every sequence   *)
(* of usb_cdcacm_rx calls made before the next packet, the bytes       *)
(* returned so far are the packet's first bytes in order, newBytes is  *)
(* what remains of the packet (so it never increases between the calls *)
(* and is 0 when all bytes are returned).  (SpecRxSeq)                 *)
C5_RoundTrip ==
    Idle =>
        /\ Len(got) <= Len(pkt)
        /\ got = SubSeq(pkt, 1, Len(got))
        /\ newBytes = Len(pkt) - Len(got)

(* C6: whenever vcomDataRxCb preempts usb_cdcacm_rx, the count the     *)
(* handler wrote to newBytes is never overwritten by the               *)
(* application's newBytes -= len, and no packet is replaced before     *)
(* usb_cdcacm_rx has returned all of its bytes.  (SpecRx)              *)
C6_NoPacketLost ==
    /\ ~clobbered
    /\ ~lostBytes

(* C7: after usbReset, from any reachable state, newBytes is 0,        *)
(* countTx is 0 and rx_offset is 0, so the bulk OUT endpoint is VALID  *)
(* only with nothing undrained.  (SpecRxSeq)                           *)
C7_ResetRestoresPowerOn ==
    op.name = "usbReset" =>
        /\ newBytes = 0
        /\ countTx = 0
        /\ rx_offset = 0

(* C8: entered with no transmission in flight, usb_cdcacm_tx(buf, len) *)
(* returns min(len, 32); when that is not 0 the BDT TX count of the    *)
(* bulk IN endpoint and countTx both equal it on return.  (SpecTxSeq)  *)
C8_TxReturnsCappedLength ==
    (op.name = "usb_cdcacm_tx" /\ pre.countTx = 0) =>
        /\ op.ret = Min(op.arg[1], 32)
        /\ op.ret # 0 =>
              /\ usb_get_ep_tx_count(pma, VCOM_TX_ENDP) = op.ret
              /\ countTx = op.ret

(* 33 bytes were offered and 32 accepted *)
C8_Witness ==
    /\ op.name = "usb_cdcacm_tx"
    /\ pre.countTx = 0
    /\ op.arg[1] = 33
    /\ op.ret = 32
    /\ countTx = 32

(* C9: usb_cdcacm_rx(buf, len) returns min(len, newBytes at entry),    *)
(* decrements newBytes by that amount and advances rx_offset by that   *)
(* amount, resetting it to 0 when newBytes reaches 0.  (SpecRxSeq)     *)
C9_RxReturnsMin ==
    op.name = "usb_cdcacm_rx" =>
        LET n == Min(op.arg[1], pre.newBytes)
        IN  /\ op.ret = n
            /\ newBytes = pre.newBytes - n
            /\ rx_offset = IF newBytes = 0 THEN 0 ELSE pre.rx_offset + n

(* one byte of two was asked for and returned, the cursor has advanced *)
C9_Witness ==
    /\ op.name = "usb_cdcacm_rx"
    /\ op.arg[1] = 1
    /\ pre.newBytes = 2 /\ pre.rx_offset = 0
    /\ op.ret = 1
    /\ newBytes = 1
    /\ rx_offset = 1

(* the transition table of the reset detector *)
DetectorTable(state, dtr) ==
    IF dtr = 1 THEN DTR_HIGH
    ELSE IF state = DTR_HIGH THEN DTR_NEGEDGE ELSE DTR_LOW

(* the table applied to a sequence of DTR bits, from UNSET *)
RECURSIVE Detector(_)
Detector(bits) ==
    IF bits = <<>> THEN DTR_UNSET
    ELSE DetectorTable(Detector(SubSeq(bits, 1, Len(bits) - 1)), bits[Len(bits)])

(* C10: every DTR bit delivered by SET_CONTROL_LINE_STATE moves the    *)
(* reset detector as the transition table says (1: HIGH from every     *)
(* state; 0: NEGEDGE from HIGH, LOW from UNSET, NEGEDGE and LOW); from *)
(* UNSET the bits 1,0,0,1 yield HIGH, NEGEDGE, LOW, HIGH.  (SpecCtl)   *)
C10_DetectorFollowsTable ==
    /\ reset_state = Detector(dtrBits)
    /\ dtrBits = <<1>> => reset_state = DTR_HIGH
    /\ dtrBits = <<1, 0>> => reset_state = DTR_NEGEDGE
    /\ dtrBits = <<1, 0, 0>> => reset_state = DTR_LOW
    /\ dtrBits = <<1, 0, 0, 1>> => reset_state = DTR_HIGH

(* the bits 1,0,0,1 have been delivered *)
C10_Witness ==
    /\ dtrBits = <<1, 0, 0, 1>>
    /\ op.name = "usbNoDataSetup"
    /\ reset_state = DTR_HIGH

(* C11: under the hardware write semantics, usb_set_ep_rx_stat and     *)
(* usb_set_ep_tx_stat write CTR_RX and CTR_TX as 1 and so leave both   *)
(* as the register held them when written, also when the peripheral    *)
(* raised one between the routine's read and its write; the SETUP      *)
(* flag, the endpoint type, kind and address are left as they were.    *)
(* (SpecRegHw)                                                         *)
C11_SetStatKeepsCtrAndPlainFields ==
    op.name \in {"usb_set_ep_rx_stat", "usb_set_ep_tx_stat"} =>
        LET r == EP[RegEp]
            w == RegWritten(op.name, epr, op.arg[1])
        IN  /\ BitAnd(w, EP_CTR_NOP) = EP_CTR_NOP
            /\ CtrRx(r) = CtrRx(op.ret)
            /\ CtrTx(r) = CtrTx(op.ret)
            /\ EpSetup(r) = EpSetup(epr)
            /\ EpType(r) = EpType(epr)
            /\ EpKind(r) = EpKind(epr)
            /\ EpAddr(r) = EpAddr(epr)

(* usb_set_ep_tx_stat read the register with CTR_RX clear, an OUT      *)
(* transfer completed before it wrote, and CTR_RX is still set         *)
C11_Witness ==
    /\ op.name = "usb_set_ep_tx_stat"
    /\ CtrRx(epr) = 0
    /\ CtrRx(op.ret) = USB_EP_CTR_RX
    /\ CtrRx(EP[RegEp]) = USB_EP_CTR_RX
    /\ EpSetup(EP[RegEp]) = USB_EP_SETUP
    /\ EpType(EP[RegEp]) = USB_EP_EP_TYPE_INTERRUPT

(* C12: setting the RX status (or the TX status) of an endpoint to the *)
(* value it already has writes no toggle bit and leaves the whole      *)
(* register as it was; applying a status-set call a second time gives  *)
(* the register the first call left.  (SpecReg)                        *)
C12_SetStatIdempotent ==
    LET r == EP[RegEp]
    IN  /\ (op.name = "usb_set_ep_rx_stat" /\ StatRx(epr) = op.arg[1]) =>
              /\ BitAnd(usb_set_ep_rx_stat(epr, op.arg[1]), EpToggleBits) = 0
              /\ r = epr
        /\ (op.name = "usb_set_ep_tx_stat" /\ StatTx(epr) = op.arg[1]) =>
              /\ BitAnd(usb_set_ep_tx_stat(epr, op.arg[1]), EpToggleBits) = 0
              /\ r = epr
        /\ op.name = "usb_set_ep_rx_stat" => SetRxStat(r, op.arg[1]) = r
        /\ op.name = "usb_set_ep_tx_stat" => SetTxStat(r, op.arg[1]) = r

(* the TX status was VALID and has been set to VALID, on a register    *)
(* with both data toggles and both CTR bits set                        *)
C12_Witness ==
    /\ op.name = "usb_set_ep_tx_stat"
    /\ op.arg[1] = USB_EP_STAT_TX_VALID
    /\ StatTx(epr) = USB_EP_STAT_TX_VALID
    /\ DtogRx(epr) = USB_EP_DTOG_RX /\ DtogTx(epr) = USB_EP_DTOG_TX
    /\ CtrRx(epr) = USB_EP_CTR_RX /\ CtrTx(epr) = USB_EP_CTR_TX
    /\ EP[RegEp] = epr

(* C13, as stated: once usb_cdcacm_tx has made countTx nonzero, the    *)
(* only operation that returns countTx to 0, and so lets a later       *)
(* usb_cdcacm_tx accept bytes, is vcomDataTxCb.  (SpecTxSeq)           *)
C13_OnlyTxCompleteClearsCountTx ==
    [][(countTx # 0 /\ countTx' = 0) => op'.name = "vcomDataTxCb"]_vars

(* C13, amended: ... the only operations that return countTx to 0, and *)
(* so let a later usb_cdcacm_tx accept bytes, are vcomDataTxCb and the *)
(* bus reset handler usbReset.  (SpecTxSeq)                            *)
C13_OnlyTxCompleteOrResetClearsCountTx ==
    [][(countTx # 0 /\ countTx' = 0) => op'.name \in {"vcomDataTxCb", "usbReset"}]_vars

(* the TX-complete callback has cleared countTx after a call that      *)
(* accepted 32 bytes                                                   *)
C13_Witness ==
    /\ op.name = "vcomDataTxCb"
    /\ countTx = 0
    /\ ~inFlight
    /\ usb_get_ep_tx_count(pma, VCOM_TX_ENDP) = VCOM_TX_EPSIZE \div 2
    /\ TxStat = USB_EP_STAT_TX_NAK

(* a SET_CONTROL_LINE_STATE request the driver has accepted *)
LineStateRequest(o) ==
    /\ o.name = "usbNoDataSetup"
    /\ o.res = USB_SUCCESS
    /\ o.arg[2] = SET_CONTROL_LINE_STATE

(* C14: after every SET_CONTROL_LINE_STATE request carrying value v,   *)
(* whatever the line bits and the detector state before it,            *)
(* usb_cdcacm_get_dtr() returns bit 0 of v, usb_cdcacm_get_rts()       *)
(* returns bit 1 of v, and the detector state is the one the           *)
(* transition table gives for the state before and bit 0 of v alone.   *)
(* (SpecCtl)                                                           *)
C14_LineBitsAndDetectorFollowDtr ==
    [][LineStateRequest(op') =>
          /\ usb_cdcacm_get_dtr' = op'.arg[3] % 2
          /\ usb_cdcacm_get_rts' = (op'.arg[3] \div 2) % 2
          /\ reset_state' = DetectorTable(reset_state, op'.arg[3] % 2)]_vars

(* a request raising RTS alone has arrived in state HIGH *)
C14_Witness ==
    /\ LineStateRequest(op)
    /\ op.arg[3] = 2
    /\ usb_cdcacm_get_dtr = 0
    /\ usb_cdcacm_get_rts = 1
    /\ dtrBits = <<1, 0>>
    /\ reset_state = DTR_NEGEDGE

(* C15: the detector enters NEGEDGE only by a SET_CONTROL_LINE_STATE   *)
(* request with DTR=0 received in state HIGH, and the next             *)
(* SET_CONTROL_LINE_STATE request received in NEGEDGE leads to LOW     *)
(* (DTR=0) or HIGH (DTR=1): NEGEDGE never holds after two consecutive  *)
(* requests.  (SpecCtl)                                                *)
C15_NegedgeIsMomentary ==
    [][/\ (reset_state # DTR_NEGEDGE /\ reset_state' = DTR_NEGEDGE) =>
              /\ LineStateRequest(op')
              /\ op'.arg[3] % 2 = 0
              /\ reset_state = DTR_HIGH
       /\ (reset_state = DTR_NEGEDGE /\ LineStateRequest(op')) =>
              reset_state' = (IF op'.arg[3] % 2 = 0 THEN DTR_LOW ELSE DTR_HIGH)]_vars

(* DTR fell, and the request after that one, again with DTR=0, has     *)
(* taken the detector from NEGEDGE to LOW                              *)
C15_Witness ==
    /\ LineStateRequest(op)
    /\ dtrBits = <<1, 0, 0>>
    /\ reset_state = DTR_LOW

(* a request of type class addressed to the interface *)
ClassInterface(o) == o.arg[1] = CLASS_REQUEST + INTERFACE_RECIPIENT

(* C16: a no-data request that is not a class+interface                *)
(* SET_COMM_FEATURE or SET_CONTROL_LINE_STATE returns USB_UNSUPPORT    *)
(* and leaves the line bits and the reset-detector state unchanged; a  *)
(* data request that is not a class+interface GET_LINE_CODING or       *)
(* SET_LINE_CODING returns USB_UNSUPPORT and installs no copy routine; *)
(* SET_COMM_FEATURE returns USB_SUCCESS and changes no driver state.   *)
(* (SpecCtl)                                                           *)
C16_UnsupportedRequestsChangeNothing ==
    [][/\ (/\ op'.name = "usbNoDataSetup"
           /\ ~(/\ ClassInterface(op')
                /\ op'.arg[2] \in {SET_COMM_FEATURE, SET_CONTROL_LINE_STATE})) =>
              /\ op'.res = USB_UNSUPPORT
              /\ UNCHANGED <<line_dtr_rts, reset_state>>
       /\ (/\ op'.name = "usbDataSetup"
           /\ ~(/\ ClassInterface(op')
                /\ op'.arg[2] \in {GET_LINE_CODING, SET_LINE_CODING})) =>
              /\ op'.res = USB_UNSUPPORT
              /\ UNCHANGED <<CopyData, last_request>>
       /\ (/\ op'.name = "usbNoDataSetup"
           /\ ClassInterface(op')
           /\ op'.arg[2] = SET_COMM_FEATURE) =>
              /\ op'.res = USB_SUCCESS
              /\ UNCHANGED <<hwVars, rxVars, countTx, fifoVars, devVars, lineVars>>]_vars

(* a SET_CONTROL_LINE_STATE addressed to the device, not the           *)
(* interface, was turned away with the detector in state HIGH and a    *)
(* copy routine installed                                              *)
C16_Witness ==
    /\ op.name = "usbNoDataSetup"
    /\ op.arg = <<CLASS_REQUEST, SET_CONTROL_LINE_STATE, 0>>
    /\ op.res = USB_UNSUPPORT
    /\ reset_state = DTR_HIGH
    /\ line_dtr_rts = 3
    /\ CopyData = "vcomGetSetLineCoding"

(* C18: after usbReset, from any reachable state, the reset-detector   *)
(* state is UNSET and the stored DTR and RTS bits are 0, as at         *)
(* power-on.  (SpecCtl)                                                *)
C18_ResetRestoresLineMonitor ==
    op.name = "usbReset" =>
        /\ reset_state = DTR_UNSET
        /\ line_dtr_rts = 0

(* C19: under the hardware write semantics, usb_set_ep_type(ep, t)     *)
(* changes only the endpoint type field and usb_set_ep_kind(ep, k)     *)
(* only the endpoint kind bit: for every initial register value the    *)
(* RX status, TX status, DTOG_RX, DTOG_TX, CTR_RX, CTR_TX and endpoint *)
(* address read back unchanged, and every toggle bit is written as 0.  *)
(* (SpecReg)                                                           *)
C19_SetTypeKindChangeTheirFieldOnly ==
    LET r == EP[RegEp]
        Kept == /\ StatRx(r) = StatRx(epr) /\ StatTx(r) = StatTx(epr)
                /\ DtogRx(r) = DtogRx(epr) /\ DtogTx(r) = DtogTx(epr)
                /\ CtrRx(r) = CtrRx(epr) /\ CtrTx(r) = CtrTx(epr)
                /\ EpAddr(r) = EpAddr(epr)
    IN  /\ op.name = "usb_set_ep_type" =>
              /\ BitAnd(usb_set_ep_type(epr, op.arg[1]), EpToggleBits) = 0
              /\ EpType(r) = op.arg[1]
              /\ EpKind(r) = EpKind(epr)
              /\ Kept
        /\ op.name = "usb_set_ep_kind" =>
              /\ BitAnd(usb_set_ep_kind(epr, op.arg[1]), EpToggleBits) = 0
              /\ EpKind(r) = op.arg[1]
              /\ EpType(r) = EpType(epr)
              /\ Kept

(* an interrupt endpoint with RX VALID, TX NAK, DTOG_TX and CTR_RX set *)
(* has been made a bulk endpoint                                       *)
C19_Witness ==
    /\ op.name = "usb_set_ep_type"
    /\ op.arg[1] = USB_EP_EP_TYPE_BULK
    /\ EpType(epr) = USB_EP_EP_TYPE_INTERRUPT
    /\ StatRx(epr) = USB_EP_STAT_RX_VALID /\ StatTx(epr) = USB_EP_STAT_TX_NAK
    /\ DtogTx(epr) = USB_EP_DTOG_TX /\ CtrRx(epr) = USB_EP_CTR_RX
    /\ EpType(EP[RegEp]) = USB_EP_EP_TYPE_BULK
    /\ EpKind(EP[RegEp]) = USB_EP_EP_KIND

(* C17: for every endpoint 0..7 and every address a,                   *)
(* usb_set_ep_tx_addr(ep, a) followed by usb_get_ep_tx_addr(ep)        *)
(* returns a with bit 0 cleared, never an odd value, and the same      *)
(* holds for usb_set_ep_rx_addr / usb_get_ep_rx_addr; an even address  *)
(* is stored unchanged.  (SpecBdt)                                     *)
C17_AddrStoredEven ==
    op.name \in {"usb_set_ep_tx_addr", "usb_set_ep_rx_addr"} =>
        /\ op.ret = op.arg[2] - (op.arg[2] % 2)
        /\ op.ret % 2 = 0
        /\ op.arg[2] % 2 = 0 => op.ret = op.arg[2]

(* the odd address 0x111 was given for the RX buffer of endpoint 7 and *)
(* 0x110 is read back                                                  *)
C17_Witness ==
    /\ op.name = "usb_set_ep_rx_addr"
    /\ op.arg = <<7, VCOM_RX_ADDR + 1>>
    /\ op.ret = VCOM_RX_ADDR
    /\ usb_get_ep_rx_addr(pma, 7) = VCOM_RX_ADDR

(* the setters of the four fields, and every field of every endpoint *)
BdtSetters == {"usb_set_ep_tx_addr", "usb_set_ep_tx_count",
               "usb_set_ep_rx_addr", "usb_set_ep_rx_count"}
BdtFields == BdtSetters \X Endpoints

(* C20: the four fields of endpoint ep are at table offsets ep*8+0 (TX *)
(* address), ep*8+2 (TX count), ep*8+4 (RX address) and ep*8+6 (RX     *)
(* count); over endpoints 0..7 the 32 locations are pairwise distinct, *)
(* and setting one field of one endpoint leaves every other field of   *)
(* every endpoint as it was.  (SpecBdt)                                *)
C20_BdtFieldsDisjoint ==
    [][/\ \A ep \in Endpoints :
              /\ usb_ep_tx_addr_ptr(ep) = usb_pma_ptr(BTABLE_ADDRESS + ep * 8 + 0)
              /\ usb_ep_tx_count_ptr(ep) = usb_pma_ptr(BTABLE_ADDRESS + ep * 8 + 2)
              /\ usb_ep_rx_addr_ptr(ep) = usb_pma_ptr(BTABLE_ADDRESS + ep * 8 + 4)
              /\ usb_ep_rx_count_ptr(ep) = usb_pma_ptr(BTABLE_ADDRESS + ep * 8 + 6)
       /\ Cardinality({BdtPtr(f[1], f[2]) : f \in BdtFields}) = 32
       /\ op'.name \in BdtSetters =>
              \A f \in BdtFields \ {<<op'.name, op'.arg[1]>>} :
                  pma'[BdtPtr(f[1], f[2])] = pma[BdtPtr(f[1], f[2])]]_vars

(* the TX count of endpoint 3 has been set with the TX address of      *)
(* endpoint 3 set before it, and the address is still there            *)
C20_Witness ==
    /\ op.name = "usb_set_ep_tx_count"
    /\ op.arg = <<3, VCOM_TX_EPSIZE \div 2>>
    /\ usb_get_ep_tx_count(pma, 3) = VCOM_TX_EPSIZE \div 2
    /\ usb_get_ep_tx_addr(pma, 3) = 65534

(* C21: usb_cdcacm_tx called with len == 0 while no transmission is in *)
(* flight returns 0 and changes nothing: countTx stays 0, the BDT TX   *)
(* count and the TX packet buffer are as they were, and the TX status  *)
(* of the bulk IN endpoint is as it was, so not newly VALID.           *)
(* (SpecTxSeq)                                                         *)
C21_EmptyTxChangesNothing ==
    (op.name = "usb_cdcacm_tx" /\ op.arg[1] = 0 /\ pre.countTx = 0) =>
        /\ op.ret = 0
        /\ countTx = 0
        /\ usb_get_ep_tx_count(pma, VCOM_TX_ENDP) = pre.txCount
        /\ TxBuffer = pre.txBuffer
        /\ TxStat = pre.txStat
        /\ TxStat # USB_EP_STAT_TX_VALID

(* an empty request was made after a packet of 32 bytes had been sent: *)
(* the count of that packet is still in the table                      *)
C21_Witness ==
    /\ op.name = "usb_cdcacm_tx"
    /\ op.arg[1] = 0
    /\ pre.countTx = 0
    /\ pre.txCount = VCOM_TX_EPSIZE \div 2
    /\ op.ret = 0
    /\ TxStat = USB_EP_STAT_TX_NAK

(* C22: in every reachable state, also when usbReset or the            *)
(* TX-complete callback preempts usb_cdcacm_tx between any two of its  *)
(* statements, if the TX status of the bulk IN endpoint is VALID then  *)
(* countTx > 0.  (SpecTx)                                              *)
C22_ValidImpliesCountTx ==
    TxStat = USB_EP_STAT_TX_VALID => countTx > 0

(* C23: usb_cdcacm_tx has recorded the length in flight in countTx     *)
(* when it sets the TX status to VALID, and for every interleaving of  *)
(* the TX-complete callback with usb_cdcacm_tx, with no bus reset      *)
(* after the device is attached, there is no state in which no call is *)
(* in progress, the submitted packet has completed (the endpoint is    *)
(* not VALID, or the callback has run) and countTx is still nonzero.   *)
(* (SpecTxIsr)                                                         *)
C23_NeverStuckBusy ==
    /\ pc \in {"tx_rd", "tx_wr"} => (countTx = len /\ countTx # 0)
    /\ (Idle /\ TxStat # USB_EP_STAT_TX_VALID) => countTx = 0
    /\ (Idle /\ ~txPending) => countTx = 0

(* the callback ran between the entry of a call made while a packet    *)
(* was in flight and that call's look at countTx                       *)
C23_Witness ==
    /\ op.name = "vcomDataTxCb"
    /\ pc = "tx_busy"
    /\ pre.countTx = VCOM_TX_EPSIZE \div 2
    /\ pre.txStat = USB_EP_STAT_TX_VALID
    /\ countTx = 0
    /\ nResets = 1

(* C24: for any sequence of RX-complete events, usb_cdcacm_rx calls    *)
(* and bus resets, every index i + rx_offset that usb_cdcacm_rx reads  *)
(* from vcomBufferRx is below VCOM_RX_BUFLEN, and rx_offset + newBytes *)
(* never exceeds the size of the last received packet, itself at most  *)
(* 64.  (SpecRxSeq)                                                    *)
C24_ReadsStayInsidePacket ==
    /\ (pc = "rx_loop" /\ UGt(len, i)) => i + rx_offset < VCOM_RX_BUFLEN
    /\ Idle => rx_offset + newBytes <= Len(pkt)
    /\ Len(pkt) <= VCOM_RX_EPSIZE

(* C25: after the first bus reset, in every reachable state in which   *)
(* newBytes == 0 and no usb_cdcacm_rx call is in progress (the         *)
(* handlers run to completion), the RX status of the bulk OUT endpoint *)
(* is VALID, also when the RX-complete handler or usbReset preempts    *)
(* usb_cdcacm_rx between the register read and the register write of   *)
(* usb_set_ep_rx_stat.  (SpecRx)                                       *)
C25_ReceiveNeverDeadlocks ==
    (nResets > 0 /\ Idle /\ newBytes = 0) => RxStat = USB_EP_STAT_RX_VALID

(* C26: once a SET_CONTROL_LINE_STATE request has been processed, in   *)
(* every reachable state the reset-detector state is not UNSET, it is  *)
(* HIGH exactly when the stored DTR bit is 1, and NEGEDGE or LOW       *)
(* exactly when the stored DTR bit is 0.  (SpecCtl)                    *)
C26_DetectorAgreesWithDtr ==
    Len(dtrBits) > 0 =>
        /\ reset_state # DTR_UNSET
        /\ reset_state = DTR_HIGH <=> usb_cdcacm_get_dtr = 1
        /\ reset_state \in {DTR_NEGEDGE, DTR_LOW} <=> usb_cdcacm_get_dtr = 0

(* the first request, with DTR=0 and RTS=1, was followed by a bus      *)
(* reset: the detector is LOW and the stored DTR bit 0                 *)
C26_Witness ==
    /\ dtrBits = <<0>>
    /\ op.name = "usbReset"
    /\ nResets = 2
    /\ reset_state = DTR_LOW
    /\ usb_cdcacm_get_dtr = 0
    /\ usb_cdcacm_get_rts = 1

(* C28: usb_clear_ctr_rx leaves CTR_RX clear and CTR_TX, both DTOG     *)
(* bits and both status fields as they were at the moment of its       *)
(* write, also when the hardware completed a transfer between its read *)
(* and its write; symmetrically for usb_clear_ctr_tx.  (SpecRegHw)     *)
C28_ClearCtrKeepsOtherBits ==
    /\ op.name = "usb_clear_ctr_rx" =>
            /\ CtrRx(EP[RegEp]) = 0
            /\ CtrTx(EP[RegEp]) = CtrTx(op.ret)
            /\ DtogRx(EP[RegEp]) = DtogRx(op.ret)
            /\ DtogTx(EP[RegEp]) = DtogTx(op.ret)
            /\ StatRx(EP[RegEp]) = StatRx(op.ret)
            /\ StatTx(EP[RegEp]) = StatTx(op.ret)
    /\ op.name = "usb_clear_ctr_tx" =>
            /\ CtrTx(EP[RegEp]) = 0
            /\ CtrRx(EP[RegEp]) = CtrRx(op.ret)
            /\ DtogRx(EP[RegEp]) = DtogRx(op.ret)
            /\ DtogTx(EP[RegEp]) = DtogTx(op.ret)
            /\ StatRx(EP[RegEp]) = StatRx(op.ret)
            /\ StatTx(EP[RegEp]) = StatTx(op.ret)

====
